---- MODULE Spec2Model ----
(***************************************************************************)
(* The VM power-state listener of esx_service/utils/vm_listener.py.        *)
(*                                                                         *)
(* start_vm_changelistener registers a PropertyCollector filter and starts *)
(* a daemon thread running listen_vm_propertychange, which long-polls      *)
(* WaitForUpdates and, for every powered-off VM reported, marks the docker *)
(* volumes attached to it as detached.                                     *)
(*                                                                         *)
(* An update set is read-only data for the loop.  The model draws each     *)
(* object update when the nested for loops reach it, which yields the same *)
(* behaviours as drawing the whole update set when WaitForUpdates returns. *)
(***************************************************************************)
EXTENDS Integers, Sequences, FiniteSets

\* ---------------------------------------------------------------- bounds

\* Calls of start_vm_changelistener the state has room for.
MaxStarts == 2
\* filterSet entries of one update set.
MaxFilters == 2
\* objectSet entries of one update set, over all its filterSet entries.
MaxObjects == 2
\* changeSet entries of one object update.
MaxChanges == 2
\* Devices of one VM.
MaxDevices == 2

\* ------------------------------------------------------------- constants

VM_POWERSTATE == "runtime.powerState"
POWERSTATE_POWEROFF == "poweredOff"

\* ------------------------------------------------------------ input data

SeqsUpTo(S, n) == UNION {[1..k -> S] : k \in 0..n}

Calls == 1..MaxStarts

\* Version tokens a PropertyCollector hands out; '' is the loop's initial one.
Versions == {"v1", "v2"}

\* ObjectUpdate.kind
Kinds == {"modify", "enter", "leave"}

\* PropertyChange: the power-off change, a power-on change of the same
\* property, and a change of another property that carries the same value.
Changes ==
  { [name |-> VM_POWERSTATE, val |-> POWERSTATE_POWEROFF],
    [name |-> VM_POWERSTATE, val |-> "poweredOn"],
    [name |-> "guest.guestState", val |-> POWERSTATE_POWEROFF] }

ChangeSets == SeqsUpTo(Changes, MaxChanges)

\* Hardware devices: a device that is no disk, two disks backed by docker
\* volumes, and a disk whose lookup raises.
Devices == {"cdrom", "disk1", "disk2", "baddisk"}

DeviceLists == SeqsUpTo(Devices, MaxDevices)

\* ObjectUpdate.obj: absent, a VM whose config is unset, a VM whose
\* hardware device list is unset, or a VM with its devices.
Morefs ==
  [tag : {"absent", "noconfig", "nodevlist"}, device : {<< >>}]
    \cup [tag : {"vm"}, device : DeviceLists]

ObjectSets == [kind : Kinds, changeSet : ChangeSets, obj : Morefs]

NoObjectSet ==
  [kind |-> "none", changeSet |-> << >>, obj |-> [tag |-> "absent", device |-> << >>]]

\* -------------------------------------------------------- collaborators

NoPath == "None"

\* vmdk_utils.find_dvs_volume: the vmdk path of a docker volume, or None.
find_dvs_volume(dev) ==
  CASE dev = "disk1" -> "/vmfs/volumes/ds1/dockvols/vol1.vmdk"
    [] dev = "disk2" -> "/vmfs/volumes/ds1/dockvols/vol2.vmdk"
    [] OTHER -> NoPath

\* vmdk_utils.find_dvs_volume raises for this device.
FindRaises(dev) == dev = "baddisk"

\* vmdk_ops.setStatusDetached raises when the KV side-car of the volume cannot
\* be written; kvDown says whether that of vol2 is unwritable during this poll.
StatusRaises(path, kvDown) == kvDown /\ path = find_dvs_volume("disk2")

\* ------------------------------------------------- set_device_detached

NoOutcome == [calls |-> << >>, errs |-> 0, raised |-> FALSE]

\* The loop of set_device_detached from device k on: the setStatusDetached
\* calls made, each with the index of its device, and whether an exception
\* left the loop.
RECURSIVE DetachFrom(_, _, _)
DetachFrom(device_list, k, kvDown) ==
  IF k > Len(device_list) THEN [calls |-> << >>, raised |-> FALSE]
  ELSE IF FindRaises(device_list[k]) THEN [calls |-> << >>, raised |-> TRUE]
  ELSE LET vmdk_path == find_dvs_volume(device_list[k])
           call == [path |-> vmdk_path, dev |-> k]
       IN  IF vmdk_path = NoPath THEN DetachFrom(device_list, k + 1, kvDown)
           ELSE IF StatusRaises(vmdk_path, kvDown)
                THEN [calls |-> <<call>>, raised |-> TRUE]
                ELSE LET rest == DetachFrom(device_list, k + 1, kvDown)
                     IN  [calls |-> <<call>> \o rest.calls, raised |-> rest.raised]

\* set_device_detached without the test of vmdk_path: every device that
\* find_dvs_volume accepts is reported detached.
RECURSIVE DetachAllFrom(_, _, _)
DetachAllFrom(device_list, k, kvDown) ==
  IF k > Len(device_list) THEN [calls |-> << >>, raised |-> FALSE]
  ELSE IF FindRaises(device_list[k]) THEN [calls |-> << >>, raised |-> TRUE]
  ELSE LET call == [path |-> find_dvs_volume(device_list[k]), dev |-> k]
           rest == DetachAllFrom(device_list, k + 1, kvDown)
       IN  [calls |-> <<call>> \o rest.calls, raised |-> rest.raised]

set_device_detached_unchecked(device_list, kvDown) ==
  DetachAllFrom(device_list, 1, kvDown)

set_device_detached(device_list, kvDown) == DetachFrom(device_list, 1, kvDown)

\* ------------------------------------- the body of the objectSet loop

\* The test of line 82 with 'and' for 'or'.
IsPowerOff_either(change) ==
  ~(change.name # VM_POWERSTATE /\ change.val # POWERSTATE_POWEROFF)

\* if change.name != VM_POWERSTATE or change.val != POWERSTATE_POWEROFF: continue
IsPowerOff(change) ==
  ~(change.name # VM_POWERSTATE \/ change.val # POWERSTATE_POWEROFF)

\* The test of moref dropped: an absent moref is dereferenced.
NotMoref_unchecked(moref) == FALSE

\* moref = getattr(objectSet, 'obj', None); if not moref: ...
NotMoref(moref) == moref.tag = "absent"

TagCalls(calls, c) ==
  [i \in 1..Len(calls) |-> [path |-> calls[i].path, dev |-> calls[i].dev, chg |-> c]]

\* The loop over changeSet from change c on, for an object update of kind
\* 'modify': calls made, "Could not retrieve the managed object" errors
\* logged, and whether an exception left the loop.
RECURSIVE ChangesFrom(_, _, _)
ChangesFrom(objectSet, c, kvDown) ==
  IF c > Len(objectSet.changeSet) THEN NoOutcome
  ELSE LET change == objectSet.changeSet[c]
           moref == objectSet.obj
           rest == ChangesFrom(objectSet, c + 1, kvDown)
       IN  IF ~IsPowerOff(change) THEN rest
           ELSE IF NotMoref(moref)
                THEN [rest EXCEPT !.errs = @ + 1]
           ELSE IF moref.tag # "vm"
                THEN [calls |-> << >>, errs |-> 0, raised |-> TRUE]
           ELSE LET d == set_device_detached(moref.device, kvDown)
                    mine == TagCalls(d.calls, c)
                IN  IF d.raised
                    THEN [calls |-> mine, errs |-> 0, raised |-> TRUE]
                    ELSE [rest EXCEPT !.calls = mine \o @]

\* The body without the test of objectSet.kind.
ProcessObjectSet_anykind(objectSet, kvDown) == ChangesFrom(objectSet, 1, kvDown)

\* if objectSet.kind != 'modify': continue
ProcessObjectSet(objectSet, kvDown) ==
  IF objectSet.kind # "modify" THEN NoOutcome
  ELSE ChangesFrom(objectSet, 1, kvDown)

\* ----------------------------------------------------------------- state

VARIABLES
  startsLeft,   \* calls of start_vm_changelistener the caller still makes
  ncalls,       \* calls of start_vm_changelistener begun so far
  mainPc,       \* "idle", or "filtered": create_vm_powerstate_filter returned
  err_msg,      \* per call: what create_vm_powerstate_filter returned
  ret,          \* per call: what start_vm_changelistener returned
  filter,       \* per call: the server-side filter: none, created, destroyed
  destroys,     \* per call: how often pcFilter.Destroy has run
  atexit,       \* the callbacks registered with atexit, in order
  started,      \* per call: threads started by it
  exited,       \* the process has exited
  pc,           \* per thread: position in listen_vm_propertychange
  version,      \* per thread: the local variable version
  cursor,       \* per thread: the argument of its latest WaitForUpdates call
  polled,       \* per thread: WaitForUpdates has been called
  resultVersion,\* per thread: result.version of the latest result
  kvDown,       \* per thread: see StatusRaises
  nfilters,     \* per thread: filterSet entries of the result entered so far
  nobjects,     \* per thread: objectSet entries of the result handled so far
  objectSet,    \* per thread: the object update the loop body last ran on
  outcome,      \* per thread: what that run of the loop body did
  caught        \* per thread: the except clause ran in this iteration

mainVars == <<startsLeft, ncalls, mainPc, err_msg, ret, filter, destroys, atexit, started>>
loopVars == <<pc, version, cursor, polled, resultVersion, kvDown, nfilters, nobjects,
              objectSet, outcome, caught>>
listenerVars == <<mainVars, exited, loopVars>>

\* The helpers of test_utils.py run against the same services.
VARIABLES
  vmState,      \* the test VM on the host: whether it exists, its power state
  task,         \* the vSphere task the running helper issued last
  authdb,       \* the auth database: default tenant, default privileges
  tpc,          \* position of the running helper; "idle" when none runs
  targ,         \* the helper that runs, its arguments and what it has read
  tlog,         \* what the running helper has done so far, in order
  tret          \* what the helper returned, or the exception that left it

testVars == <<vmState, task, authdb, tpc, targ, tlog, tret>>

vars == <<listenerVars, testVars>>

NoTask == [kind |-> "none", state |-> "none"]
NoArgs == [fn |-> "none"]
NoReturn == "unset"

\* No helper of test_utils.py runs.
TestIdle ==
  /\ vmState = [exists |-> FALSE, powerState |-> "poweredOff"]
  /\ task = NoTask
  /\ authdb = [tenant |-> FALSE, privileges |-> FALSE, lastRunOk |-> FALSE]
  /\ tpc = "idle"
  /\ targ = NoArgs
  /\ tlog = << >>
  /\ tret = NoReturn

ERR_MSG == "Problem creating PropertyCollector filter"

InitWith(n) ==
  /\ startsLeft = n
  /\ ncalls = 0
  /\ mainPc = "idle"
  /\ err_msg = [i \in Calls |-> "unset"]
  /\ ret = [i \in Calls |-> "unset"]
  /\ filter = [i \in Calls |-> "none"]
  /\ destroys = [i \in Calls |-> 0]
  /\ atexit = << >>
  /\ started = [i \in Calls |-> 0]
  /\ exited = FALSE
  /\ pc = [i \in Calls |-> "unstarted"]
  /\ version = [i \in Calls |-> ""]
  /\ cursor = [i \in Calls |-> ""]
  /\ polled = [i \in Calls |-> FALSE]
  /\ resultVersion = [i \in Calls |-> ""]
  /\ kvDown = [i \in Calls |-> FALSE]
  /\ nfilters = [i \in Calls |-> 0]
  /\ nobjects = [i \in Calls |-> 0]
  /\ objectSet = [i \in Calls |-> NoObjectSet]
  /\ outcome = [i \in Calls |-> NoOutcome]
  /\ caught = [i \in Calls |-> FALSE]

\* The service calls start_vm_changelistener once, at start-up.
Init == InitWith(1) /\ TestIdle

\* ------------------------------------------------ start_vm_changelistener

\* create_vm_powerstate_filter that registers callbacks cbs for the new filter.
CreateFilterRegistering(cbs) ==
  /\ ~exited /\ mainPc = "idle" /\ startsLeft > 0
  /\ LET i == ncalls + 1
     IN  /\ ncalls' = i
         /\ filter' = [filter EXCEPT ![i] = "created"]
         /\ atexit' = atexit \o [k \in 1..cbs |-> i]
         /\ err_msg' = [err_msg EXCEPT ![i] = "None"]
  /\ startsLeft' = startsLeft - 1
  /\ mainPc' = "filtered"
  /\ UNCHANGED <<ret, destroys, started, exited, loopVars>>

\* The filter is created and atexit.register is left out.
CreateFilterSucceeds_unregistered == CreateFilterRegistering(0)

\* The filter is created and its Destroy registered twice.
CreateFilterSucceeds_twice == CreateFilterRegistering(2)

\* create_vm_powerstate_filter, pc.CreateFilter returning a filter.
CreateFilterSucceeds ==
  /\ ~exited /\ mainPc = "idle" /\ startsLeft > 0
  /\ LET i == ncalls + 1
     IN  /\ ncalls' = i
         /\ filter' = [filter EXCEPT ![i] = "created"]
         /\ atexit' = Append(atexit, i)
         /\ err_msg' = [err_msg EXCEPT ![i] = "None"]
  /\ startsLeft' = startsLeft - 1
  /\ mainPc' = "filtered"
  /\ UNCHANGED <<ret, destroys, started, exited, loopVars>>

\* create_vm_powerstate_filter, pc.CreateFilter raising.
CreateFilterFails ==
  /\ ~exited /\ mainPc = "idle" /\ startsLeft > 0
  /\ ncalls' = ncalls + 1
  /\ err_msg' = [err_msg EXCEPT ![ncalls + 1] = ERR_MSG]
  /\ startsLeft' = startsLeft - 1
  /\ mainPc' = "filtered"
  /\ UNCHANGED <<ret, filter, destroys, atexit, started, exited, loopVars>>

\* if err_msg: return err_msg
ReturnErrMsg ==
  /\ ~exited /\ mainPc = "filtered"
  /\ err_msg[ncalls] # "None"
  /\ ret' = [ret EXCEPT ![ncalls] = err_msg[ncalls]]
  /\ mainPc' = "idle"
  /\ UNCHANGED <<startsLeft, ncalls, err_msg, filter, destroys, atexit, started,
                 exited, loopVars>>

\* The thread is started whatever create_vm_powerstate_filter returned.
StartThread_unchecked ==
  /\ ~exited /\ mainPc = "filtered"
  /\ started' = [started EXCEPT ![ncalls] = @ + 1]
  /\ pc' = [pc EXCEPT ![ncalls] = "poll"]
  /\ version' = [version EXCEPT ![ncalls] = ""]
  /\ ret' = [ret EXCEPT ![ncalls] = "None"]
  /\ mainPc' = "idle"
  /\ UNCHANGED <<startsLeft, ncalls, err_msg, filter, destroys, atexit, exited,
                 cursor, polled, resultVersion, kvDown, nfilters, nobjects,
                 objectSet, outcome, caught>>

\* threadutils.start_new_thread(...), then the function returns None.
StartThread ==
  /\ ~exited /\ mainPc = "filtered"
  /\ err_msg[ncalls] = "None"
  /\ started' = [started EXCEPT ![ncalls] = @ + 1]
  /\ pc' = [pc EXCEPT ![ncalls] = "poll"]
  /\ version' = [version EXCEPT ![ncalls] = ""]
  /\ ret' = [ret EXCEPT ![ncalls] = "None"]
  /\ mainPc' = "idle"
  /\ UNCHANGED <<startsLeft, ncalls, err_msg, filter, destroys, atexit, exited,
                 cursor, polled, resultVersion, kvDown, nfilters, nobjects,
                 objectSet, outcome, caught>>

\* ------------------------------------------------ listen_vm_propertychange

\* result = pc.WaitForUpdates(version), returning an update set.
WaitForUpdates(t) ==
  /\ ~exited /\ pc[t] = "poll"
  /\ cursor' = [cursor EXCEPT ![t] = version[t]]
  /\ polled' = [polled EXCEPT ![t] = TRUE]
  /\ \E v \in Versions : resultVersion' = [resultVersion EXCEPT ![t] = v]
  /\ \E b \in BOOLEAN : kvDown' = [kvDown EXCEPT ![t] = b]
  /\ nfilters' = [nfilters EXCEPT ![t] = 0]
  /\ nobjects' = [nobjects EXCEPT ![t] = 0]
  /\ objectSet' = [objectSet EXCEPT ![t] = NoObjectSet]
  /\ outcome' = [outcome EXCEPT ![t] = NoOutcome]
  /\ caught' = [caught EXCEPT ![t] = FALSE]
  /\ pc' = [pc EXCEPT ![t] = "iter"]
  /\ UNCHANGED <<mainVars, exited, version>>

\* pc.WaitForUpdates(version) raising: the call is outside the try block.
WaitForUpdatesRaises(t) ==
  /\ ~exited /\ pc[t] = "poll"
  /\ cursor' = [cursor EXCEPT ![t] = version[t]]
  /\ polled' = [polled EXCEPT ![t] = TRUE]
  /\ pc' = [pc EXCEPT ![t] = "dead"]
  /\ UNCHANGED <<mainVars, exited, version, resultVersion, kvDown, nfilters,
                 nobjects, objectSet, outcome, caught>>

\* for filterSet in result.filterSet: the next filterSet entry.
NextFilterSet(t) ==
  /\ ~exited /\ pc[t] = "iter"
  /\ nfilters[t] < MaxFilters
  /\ nfilters' = [nfilters EXCEPT ![t] = @ + 1]
  /\ objectSet' = [objectSet EXCEPT ![t] = NoObjectSet]
  /\ outcome' = [outcome EXCEPT ![t] = NoOutcome]
  /\ UNCHANGED <<mainVars, exited, pc, version, cursor, polled, resultVersion,
                 kvDown, nobjects, caught>>

\* for objectSet in filterSet.objectSet: the body, on the next entry, which
\* is one of the object updates U.
ObjectSetBodyIn(t, U) ==
  /\ ~exited /\ pc[t] = "iter"
  /\ nfilters[t] > 0 /\ nobjects[t] < MaxObjects
  /\ \E o \in U :
       /\ objectSet' = [objectSet EXCEPT ![t] = o]
       /\ outcome' = [outcome EXCEPT ![t] = ProcessObjectSet(o, kvDown[t])]
  /\ nobjects' = [nobjects EXCEPT ![t] = @ + 1]
  /\ pc' = [pc EXCEPT ![t] = "body_done"]
  /\ UNCHANGED <<mainVars, exited, version, cursor, polled, resultVersion,
                 kvDown, nfilters, caught>>

ObjectSetBody(t) == ObjectSetBodyIn(t, ObjectSets)

\* The body ended normally: back to the head of the for loops.
NextIteration(t) ==
  /\ ~exited /\ pc[t] = "body_done" /\ ~outcome[t].raised
  /\ objectSet' = [objectSet EXCEPT ![t] = NoObjectSet]
  /\ outcome' = [outcome EXCEPT ![t] = NoOutcome]
  /\ pc' = [pc EXCEPT ![t] = "iter"]
  /\ UNCHANGED <<mainVars, exited, version, cursor, polled, resultVersion,
                 kvDown, nfilters, nobjects, caught>>

\* The try statement inside the for loops: after the except clause the loops
\* go on with the next entry.
ExceptClause_resume(t) ==
  /\ ~exited /\ pc[t] = "body_done" /\ outcome[t].raised
  /\ caught' = [caught EXCEPT ![t] = TRUE]
  /\ pc' = [pc EXCEPT ![t] = "iter"]
  /\ UNCHANGED <<mainVars, exited, version, cursor, polled, resultVersion,
                 kvDown, nfilters, nobjects, objectSet, outcome>>

\* except Exception as e: logging.error(...)
ExceptClause(t) ==
  /\ ~exited /\ pc[t] = "body_done" /\ outcome[t].raised
  /\ caught' = [caught EXCEPT ![t] = TRUE]
  /\ pc' = [pc EXCEPT ![t] = "advance"]
  /\ UNCHANGED <<mainVars, exited, version, cursor, polled, resultVersion,
                 kvDown, nfilters, nobjects, objectSet, outcome>>

\* The for loops are exhausted.
EndOfResult(t) ==
  /\ ~exited /\ pc[t] = "iter"
  /\ pc' = [pc EXCEPT ![t] = "advance"]
  /\ UNCHANGED <<mainVars, exited, version, cursor, polled, resultVersion,
                 kvDown, nfilters, nobjects, objectSet, outcome, caught>>

\* version as a module-level variable that every watch loop assigns.
Advance_shared(t) ==
  /\ ~exited /\ pc[t] = "advance"
  /\ version' = [i \in Calls |-> resultVersion[t]]
  /\ pc' = [pc EXCEPT ![t] = "poll"]
  /\ UNCHANGED <<mainVars, exited, cursor, polled, resultVersion, kvDown,
                 nfilters, nobjects, objectSet, outcome, caught>>

\* The loop polls again and version is never assigned.
Advance_stale(t) ==
  /\ ~exited /\ pc[t] = "advance"
  /\ pc' = [pc EXCEPT ![t] = "poll"]
  /\ UNCHANGED <<mainVars, exited, version, cursor, polled, resultVersion, kvDown,
                 nfilters, nobjects, objectSet, outcome, caught>>

\* version = result.version as the last statement of the try block: an
\* exception skips it.
Advance_in_try(t) ==
  /\ ~exited /\ pc[t] = "advance"
  /\ version' = [version EXCEPT ![t] = IF caught[t] THEN @ ELSE resultVersion[t]]
  /\ pc' = [pc EXCEPT ![t] = "poll"]
  /\ UNCHANGED <<mainVars, exited, cursor, polled, resultVersion, kvDown,
                 nfilters, nobjects, objectSet, outcome, caught>>

\* version = result.version
Advance(t) ==
  /\ ~exited /\ pc[t] = "advance"
  /\ version' = [version EXCEPT ![t] = resultVersion[t]]
  /\ pc' = [pc EXCEPT ![t] = "poll"]
  /\ UNCHANGED <<mainVars, exited, cursor, polled, resultVersion, kvDown,
                 nfilters, nobjects, objectSet, outcome, caught>>

\* ---------------------------------------------------------- process exit

Count(s, x) == Cardinality({k \in 1..Len(s) : s[k] = x})

\* The interpreter exits: the atexit callbacks run, daemon threads end.
ProcessExit ==
  /\ ~exited
  /\ exited' = TRUE
  /\ destroys' = [i \in Calls |-> destroys[i] + Count(atexit, i)]
  /\ filter' = [i \in Calls |-> IF Count(atexit, i) > 0 THEN "destroyed" ELSE filter[i]]
  /\ UNCHANGED <<startsLeft, ncalls, mainPc, err_msg, ret, atexit, started, loopVars>>

Next ==
  \/ CreateFilterSucceeds /\ UNCHANGED testVars
  \/ CreateFilterFails /\ UNCHANGED testVars
  \/ ReturnErrMsg /\ UNCHANGED testVars
  \/ StartThread /\ UNCHANGED testVars
  \/ \E t \in Calls : WaitForUpdates(t) /\ UNCHANGED testVars
  \/ \E t \in Calls : WaitForUpdatesRaises(t) /\ UNCHANGED testVars
  \/ \E t \in Calls : NextFilterSet(t) /\ UNCHANGED testVars
  \/ \E t \in Calls : ObjectSetBody(t) /\ UNCHANGED testVars
  \/ \E t \in Calls : NextIteration(t) /\ UNCHANGED testVars
  \/ \E t \in Calls : ExceptClause(t) /\ UNCHANGED testVars
  \/ \E t \in Calls : EndOfResult(t) /\ UNCHANGED testVars
  \/ \E t \in Calls : Advance(t) /\ UNCHANGED testVars
  \/ ProcessExit /\ UNCHANGED testVars

Spec == Init /\ [][Next]_vars

\* --------------------------------- start_vm_changelistener called twice

\* The object updates of the runs with two watch loops: a power-off of a VM
\* with a volume disk, a power-off of a VM whose device list is unset, and
\* an 'enter' update.
FewObjectSets ==
  { [kind |-> "modify",
     changeSet |-> <<[name |-> VM_POWERSTATE, val |-> POWERSTATE_POWEROFF]>>,
     obj |-> [tag |-> "vm", device |-> <<"disk1">>]],
    [kind |-> "modify",
     changeSet |-> <<[name |-> VM_POWERSTATE, val |-> POWERSTATE_POWEROFF]>>,
     obj |-> [tag |-> "nodevlist", device |-> << >>]],
    [kind |-> "enter", changeSet |-> << >>, obj |-> [tag |-> "vm", device |-> << >>]] }

InitTwo == InitWith(2) /\ TestIdle

NextTwo ==
  \/ CreateFilterSucceeds /\ UNCHANGED testVars
  \/ CreateFilterFails /\ UNCHANGED testVars
  \/ ReturnErrMsg /\ UNCHANGED testVars
  \/ StartThread /\ UNCHANGED testVars
  \/ \E t \in Calls : WaitForUpdates(t) /\ UNCHANGED testVars
  \/ \E t \in Calls : WaitForUpdatesRaises(t) /\ UNCHANGED testVars
  \/ \E t \in Calls : NextFilterSet(t) /\ UNCHANGED testVars
  \/ \E t \in Calls : ObjectSetBodyIn(t, FewObjectSets) /\ UNCHANGED testVars
  \/ \E t \in Calls : NextIteration(t) /\ UNCHANGED testVars
  \/ \E t \in Calls : ExceptClause(t) /\ UNCHANGED testVars
  \/ \E t \in Calls : EndOfResult(t) /\ UNCHANGED testVars
  \/ \E t \in Calls : Advance(t) /\ UNCHANGED testVars
  \/ ProcessExit /\ UNCHANGED testVars

SpecTwo == InitTwo /\ [][NextTwo]_vars

\* ------------------------------------------------------- test_utils.py

PowerStates == {"poweredOn", "poweredOff", "suspended"}

\* The events of tlog: a task the helper issued, and a wait_for_tasks call
\* that returned, with the state the task had then.
Issued(kind) == [ev |-> "issued", task |-> kind, state |-> "running"]
Waited(t) == [ev |-> "waited", task |-> t.kind, state |-> t.state]

Running(kind) == [kind |-> kind, state |-> "running"]

\* The host completes the task the helper waits for, or fails it.
TaskCompletes ==
  /\ task.state = "running"
  /\ \E ok \in BOOLEAN :
       /\ task' = [task EXCEPT !.state = IF ok THEN "success" ELSE "error"]
       /\ IF ~ok THEN vmState' = vmState
          ELSE CASE task.kind = "CreateVM_Task" ->
                      \E p \in PowerStates :
                        vmState' = [exists |-> TRUE, powerState |-> p]
                 [] task.kind = "PowerOnVM_Task" ->
                      vmState' = [vmState EXCEPT !.powerState = "poweredOn"]
                 [] task.kind = "PowerOffVM_Task" ->
                      vmState' = [vmState EXCEPT !.powerState = "poweredOff"]
                 [] task.kind = "Destroy_Task" ->
                      vmState' = [vmState EXCEPT !.exists = FALSE]
  /\ UNCHANGED <<authdb, tpc, targ, tlog, tret>>

\* vmdk_ops.wait_for_tasks(si, [task]) returns once the task has completed.
TaskDone == task.state \in {"success", "error"}

\* vmdk_ops.wait_for_tasks(si, [task]) raises for a task that ended in
\* error: the exception leaves the helper that waits.
WaitForTasksRaises ==
  /\ tpc \in {"rv_wait_poweroff", "rv_wait_destroy",
              "cv_wait_create", "cv_wait_poweron"}
  /\ task.state = "error"
  /\ tlog' = Append(tlog, Waited(task))
  /\ tpc' = "raised"
  /\ tret' = "TaskError"
  /\ UNCHANGED <<vmState, task, authdb, targ, listenerVars>>

\* ---- remove_vm

\* if destroy_vm: destroy_vm_object(si, vm), taken whatever destroy_vm is.
RemoveVmTail_always(destroy_vm, log) ==
  /\ task' = Running("Destroy_Task")
  /\ tlog' = Append(log, Issued("Destroy_Task"))
  /\ tpc' = "rv_wait_destroy"
  /\ tret' = tret

\* if destroy_vm: destroy_vm_object(si, vm), up to its wait_for_tasks call;
\* log is what the helper has done before.
RemoveVmTail(destroy_vm, log) ==
  IF destroy_vm
  THEN /\ task' = Running("Destroy_Task")
       /\ tlog' = Append(log, Issued("Destroy_Task"))
       /\ tpc' = "rv_wait_destroy"
       /\ tret' = tret
  ELSE /\ task' = task
       /\ tlog' = log
       /\ tpc' = "returned"
       /\ tret' = "None"

\* remove_vm(si, vm, destroy_vm), up to its first wait_for_tasks call.
RemoveVmCall ==
  /\ tpc = "idle"
  /\ \E vm \in (IF vmState.exists THEN {"None", "vm"} ELSE {"None"}),
        destroy_vm \in BOOLEAN :
       /\ targ' = [fn |-> "remove_vm", vm |-> vm, destroy_vm |-> destroy_vm,
                   powerState |-> vmState.powerState]
       /\ IF vm = "None"
          THEN /\ tpc' = "returned" /\ tret' = "None"
               /\ tlog' = << >> /\ task' = task
          ELSE IF vmState.powerState = "poweredOn"
          THEN /\ task' = Running("PowerOffVM_Task")
               /\ tlog' = <<Issued("PowerOffVM_Task")>>
               /\ tpc' = "rv_wait_poweroff"
               /\ tret' = tret
          ELSE RemoveVmTail(destroy_vm, << >>)
  /\ UNCHANGED <<vmState, authdb, listenerVars>>

\* wait_for_tasks returns for the power-off task.
RemoveVmPoweredOff ==
  /\ tpc = "rv_wait_poweroff" /\ TaskDone
  /\ RemoveVmTail(targ.destroy_vm, Append(tlog, Waited(task)))
  /\ UNCHANGED <<vmState, authdb, targ, listenerVars>>

\* wait_for_tasks returns for the destroy task; remove_vm returns.
RemoveVmDestroyed ==
  /\ tpc = "rv_wait_destroy" /\ TaskDone
  /\ tlog' = Append(tlog, Waited(task))
  /\ tpc' = "returned"
  /\ tret' = "None"
  /\ UNCHANGED <<vmState, task, authdb, targ, listenerVars>>

\* ---- create_vm

\* The test of the power state with any state but poweredOn powered on.
NeedsPowerOn_unless_on(powerState) == powerState # "poweredOn"

\* if vm.runtime.powerState == vim.VirtualMachinePowerState.poweredOff
NeedsPowerOn(powerState) == powerState = "poweredOff"

\* create_vm(si, vm_name, datastore_name), up to its first wait_for_tasks.
CreateVmCall ==
  /\ tpc = "idle" /\ ~vmState.exists
  /\ targ' = [fn |-> "create_vm", vm |-> "unset", powerState |-> "unset"]
  /\ task' = Running("CreateVM_Task")
  /\ tlog' = <<Issued("CreateVM_Task")>>
  /\ tpc' = "cv_wait_create"
  /\ UNCHANGED <<vmState, authdb, tret, listenerVars>>

\* wait_for_tasks returns for the create task: vm = task.info.result.
CreateVmCreated ==
  /\ tpc = "cv_wait_create" /\ TaskDone
  /\ LET vm == IF task.state = "success" THEN "vm" ELSE "None"
         log == Append(tlog, Waited(task))
     IN  IF vm # "None"
         THEN /\ targ' = [targ EXCEPT !.vm = vm, !.powerState = vmState.powerState]
              /\ IF NeedsPowerOn(vmState.powerState)
                 THEN /\ task' = Running("PowerOnVM_Task")
                      /\ tlog' = Append(log, Issued("PowerOnVM_Task"))
                      /\ tpc' = "cv_wait_poweron"
                      /\ tret' = tret
                 ELSE /\ task' = task
                      /\ tlog' = log
                      /\ tpc' = "returned"
                      /\ tret' = [error_info |-> "None", vm |-> vm]
         ELSE /\ targ' = [targ EXCEPT !.vm = vm]
              /\ task' = task
              /\ tlog' = log
              /\ tpc' = "returned"
              /\ tret' = [error_info |-> "VM_NOT_FOUND", vm |-> "None"]
  /\ UNCHANGED <<vmState, authdb, listenerVars>>

\* wait_for_tasks returns for the power-on task; create_vm returns.
CreateVmPoweredOn ==
  /\ tpc = "cv_wait_poweron" /\ TaskDone
  /\ tlog' = Append(tlog, Waited(task))
  /\ tpc' = "returned"
  /\ tret' = [error_info |-> "None", vm |-> targ.vm]
  /\ UNCHANGED <<vmState, task, authdb, targ, listenerVars>>

\* ---- the test that calls the helpers

\* The helper has returned; the test goes on to its next call.
TestGoesOn ==
  /\ tpc \in {"returned", "raised"}
  /\ tpc' = "idle"
  /\ targ' = NoArgs
  /\ tlog' = << >>
  /\ tret' = NoReturn
  /\ task' = NoTask
  /\ UNCHANGED <<vmState, authdb, listenerVars>>

\* ---- checkIfVolumeExist

MaxNames == 2
MaxEntries == 2

VolumeNames == {"vol1", "vol2", "vol3"}

\* An argument that is None, or a list (which may be empty).
None == [none |-> TRUE, items |-> << >>]
ListOf(s) == [none |-> FALSE, items |-> s]

\* Python's truth value of a list or None.
Truthy(arg) == ~arg.none /\ Len(arg.items) > 0

\* The entries of result: dictionaries with a 'Name' key.
Entries == [Name : VolumeNames]

NameLists == {None} \cup {ListOf(s) : s \in SeqsUpTo(VolumeNames, MaxNames)}
ResultLists == {None} \cup {ListOf(s) : s \in SeqsUpTo(Entries, MaxEntries)}

\* The inner loop looking at the first entry of result only.
InnerLoop_first(result, name, j) ==
  IF j > 1 THEN TRUE
  ELSE IF result[j].Name = name THEN TRUE
  ELSE FALSE

\* for j in range(len(result)): TRUE when the loop ends by break (or by
\* exhaustion), FALSE when it logs the error and returns False. j is the
\* 1-based index, so 'j+1 == len(result)' reads j = Len(result).
RECURSIVE InnerLoop(_, _, _)
InnerLoop(result, name, j) ==
  IF j > Len(result) THEN TRUE
  ELSE IF result[j].Name = name THEN TRUE
  ELSE IF j = Len(result) THEN FALSE
  ELSE InnerLoop(result, name, j + 1)

\* for name in volume_names, from the i-th name on: the value returned and
\* the names looked up before returning.
RECURSIVE NamesLoop(_, _, _, _)
NamesLoop(volume_names, result, i, seen) ==
  IF i > Len(volume_names) THEN [value |-> TRUE, seen |-> seen, errors |-> 0]
  ELSE IF InnerLoop(result, volume_names[i], 1)
       THEN NamesLoop(volume_names, result, i + 1, Append(seen, volume_names[i]))
       ELSE [value |-> FALSE, seen |-> Append(seen, volume_names[i]),
             errors |-> 1]

checkIfVolumeExist(volume_names, result) ==
  IF ~Truthy(result) \/ ~Truthy(volume_names)
  THEN [value |-> FALSE, seen |-> << >>, errors |-> 0]
  ELSE NamesLoop(volume_names.items, result.items, 1, << >>)

\* A test calls checkIfVolumeExist.
CheckVolumes ==
  /\ tpc = "idle"
  /\ \E volume_names \in NameLists, result \in ResultLists :
       /\ targ' = [fn |-> "checkIfVolumeExist",
                   volume_names |-> volume_names, result |-> result]
       /\ tret' = checkIfVolumeExist(volume_names, result)
  /\ tpc' = "returned"
  /\ UNCHANGED <<vmState, task, authdb, tlog, listenerVars>>

\* ---- create_default_tenant_and_privileges

\* Which of the collaborator calls return an error, should they be made.
CallOutcomes ==
  [get_default_tenant : BOOLEAN, get_auth_mgr_object : BOOLEAN,
   create_tenant : BOOLEAN, get_default_privileges : BOOLEAN,
   tenant_access_add : BOOLEAN]

Called(name, failed) ==
  [ev |-> "call", task |-> name, state |-> IF failed THEN "error" ELSE "ok"]

\* logging.warning(...) after the named call.
Warned(name) == [ev |-> "warning", task |-> name, state |-> "logged"]

Run(db, log, how) == [db |-> db, log |-> log, ret |-> how]

\* if error: logging.warning(error); test_obj.assertEqual(error, None)
Asserted(db, log, name) ==
  Run(db, Append(Append(log, Called(name, TRUE)), Warned(name)),
      "AssertionError")

\* The test of tenant_uuid, taken as if no tenant were ever there.
NoTenant_always(db) == TRUE

\* if not tenant_uuid
NoTenant(db) == ~db.tenant

\* if not privileges
NoPrivileges(db) == ~db.privileges

\* Lines 157-173: the DEFAULT privileges.
PrivilegeStep(db, log, o) ==
  IF o.get_default_privileges
  THEN Asserted(db, log, "get_default_privileges")
  ELSE LET log1 == Append(log, Called("get_default_privileges", FALSE))
       IN  IF NoPrivileges(db)
           THEN IF o.tenant_access_add
                THEN Asserted(db, log1, "_tenant_access_add")
                ELSE Run([db EXCEPT !.privileges = TRUE],
                         Append(log1, Called("_tenant_access_add", FALSE)),
                         "ok")
           ELSE Run(db, log1, "ok")

\* Lines 134-155: the DEFAULT tenant. When create_tenant returns an error
\* message, line 153 reads error_info.msg with error_info None.
TenantStep(db, log, o) ==
  IF NoTenant(db)
  THEN IF o.get_auth_mgr_object
       THEN Asserted(db, log, "get_auth_mgr_object")
       ELSE LET log1 == Append(log, Called("get_auth_mgr_object", FALSE))
            IN  IF o.create_tenant
                THEN Run(db, Append(log1, Called("create_tenant", TRUE)),
                         "AttributeError")
                ELSE PrivilegeStep([db EXCEPT !.tenant = TRUE],
                                   Append(log1, Called("create_tenant", FALSE)),
                                   o)
  ELSE PrivilegeStep(db, log, o)

TenantRun(db, o) ==
  IF o.get_default_tenant
  THEN Asserted(db, << >>, "get_default_tenant")
  ELSE TenantStep(db, <<Called("get_default_tenant", FALSE)>>, o)

\* A test calls create_default_tenant_and_privileges(test_obj).
CreateDefaults ==
  /\ tpc = "idle"
  /\ \E o \in CallOutcomes :
       LET run == TenantRun(authdb, o)
       IN  /\ targ' = [fn |-> "create_default_tenant_and_privileges",
                       db |-> authdb, o |-> o]
           /\ authdb' = [run.db EXCEPT !.lastRunOk = (run.ret = "ok")]
           /\ tlog' = run.log
           /\ tret' = run.ret
           /\ tpc' = IF run.ret = "ok" THEN "returned" ELSE "raised"
  /\ UNCHANGED <<vmState, task, listenerVars>>

\* The tests start with or without a VM and an authorization database.
InitTest ==
  /\ InitWith(1)
  /\ vmState \in [exists : BOOLEAN, powerState : PowerStates]
  /\ task = NoTask
  /\ authdb \in [tenant : BOOLEAN, privileges : BOOLEAN, lastRunOk : {FALSE}]
  /\ tpc = "idle"
  /\ targ = NoArgs
  /\ tlog = << >>
  /\ tret = NoReturn

NextTest ==
  \/ TaskCompletes /\ UNCHANGED listenerVars
  \/ WaitForTasksRaises
  \/ RemoveVmCall
  \/ RemoveVmPoweredOff
  \/ RemoveVmDestroyed
  \/ CreateVmCall
  \/ CreateVmCreated
  \/ CreateVmPoweredOn
  \/ CheckVolumes
  \/ CreateDefaults
  \/ TestGoesOn

SpecTest == InitTest /\ [][NextTest]_vars

\* ---------------------------------------------------------------- claims

\* The changes of an object update that report a power-off.
Qualifying(o) ==
  {c \in 1..Len(o.changeSet) :
     /\ o.changeSet[c].name = VM_POWERSTATE
     /\ o.changeSet[c].val = POWERSTATE_POWEROFF}

\* The setStatusDetached calls the last run of the loop body made for device k.
CallsFor(t, k) ==
  {i \in 1..Len(outcome[t].calls) : outcome[t].calls[i].dev = k}

BodyDone(t) == pc[t] = "body_done"

\* A power-off of a VM whose reference and device list are there.
PowerOffOfVm(t) ==
  /\ BodyDone(t)
  /\ objectSet[t].kind = "modify"
  /\ Qualifying(objectSet[t]) # {}
  /\ objectSet[t].obj.tag = "vm"

\* n calls for every device with a volume path, all with that path, and no
\* call for a device without one.
CallsPerDevice(t, n) ==
  \A k \in 1..Len(objectSet[t].obj.device) :
    LET dev == objectSet[t].obj.device[k]
    IN  ~FindRaises(dev) =>
          IF find_dvs_volume(dev) # NoPath
          THEN /\ Cardinality(CallsFor(t, k)) = n
               /\ \A i \in CallsFor(t, k) :
                    outcome[t].calls[i].path = find_dvs_volume(dev)
          ELSE CallsFor(t, k) = {}

C2_CursorIsLastVersion ==
  [][\A t \in Calls :
       (pc[t] = "poll" /\ pc'[t] # "poll")
         => cursor'[t] = (IF polled[t] THEN resultVersion[t] ELSE "")]_vars

\* C2 witness: a second poll was made with the version the first returned,
\* and returned another version.
C2_Witness ==
  /\ pc[1] = "iter"
  /\ cursor[1] = "v1"
  /\ resultVersion[1] = "v2"

\* C3: an exception raised by the loop body is caught and logged, the thread
\* goes on to version = result.version, and its next WaitForUpdates call gets
\* the version of the result whose processing failed.
C3_ExceptionStillAdvances ==
  [][\A t \in Calls :
       /\ (BodyDone(t) /\ outcome[t].raised /\ pc'[t] # pc[t])
            => (pc'[t] = "advance" /\ caught'[t])
       /\ (pc[t] = "advance" /\ caught[t] /\ pc'[t] # pc[t])
            => (pc'[t] = "poll" /\ version'[t] = resultVersion[t])
       /\ (pc[t] = "poll" /\ caught[t] /\ pc'[t] # pc[t])
            => cursor'[t] = resultVersion[t]]_vars

\* C3 witness: the except clause ran, the version moved on to that of the
\* failed result, and the thread is about to poll with it.
C3_Witness ==
  /\ pc[1] = "poll"
  /\ caught[1]
  /\ outcome[1].raised
  /\ version[1] = "v2"
  /\ cursor[1] = "v1"
  /\ resultVersion[1] = "v2"

\* C4, as claimed: a failing WaitForUpdates call is caught like a processing
\* failure, so a started watch loop never stops before the process exits.
C4_LoopNeverDies ==
  \A t \in Calls : pc[t] # "dead"

Failed(i) == err_msg[i] \notin {"unset", "None"}

\* C5: when CreateFilter fails, start_vm_changelistener returns a non-empty
\* error message, starts no thread, makes no WaitForUpdates call and
\* registers no exit-time cleanup.
C5_FailedFilterStartsNothing ==
  \A i \in Calls :
    Failed(i) =>
      /\ started[i] = 0 /\ pc[i] = "unstarted" /\ ~polled[i]
      /\ Count(atexit, i) = 0
      /\ filter[i] = "none"
      /\ ret[i] \in {"unset", err_msg[i]}
      /\ err_msg[i] # ""
      /\ (mainPc = "idle" => ret[i] = err_msg[i])

\* C5 witness: the call has returned the error message.
C5_Witness ==
  /\ Failed(1)
  /\ ret[1] = ERR_MSG
  /\ mainPc = "idle"

\* C6: when CreateFilter succeeds, the filter's Destroy is registered with
\* atexit, start_vm_changelistener starts exactly one thread and returns
\* None, and no WaitForUpdates call is made before the filter exists.
C6_SuccessStartsOneThread ==
  \A i \in Calls :
    /\ err_msg[i] = "None" => Count(atexit, i) = 1
    /\ started[i] <= 1
    /\ ret[i] = "None" => (err_msg[i] = "None" /\ started[i] = 1)
    /\ (err_msg[i] = "None" /\ i < ncalls) => ret[i] = "None"
    /\ (err_msg[i] = "None" /\ mainPc = "idle") => ret[i] = "None"
    /\ polled[i] => (err_msg[i] = "None" /\ filter[i] # "none")

\* C6 witness: the caller has its return value and the thread has not polled.
C6_Witness ==
  /\ ret[1] = "None"
  /\ mainPc = "idle"
  /\ pc[1] = "poll"
  /\ ~polled[1]
  /\ ~exited

\* C7: the Destroy of a created filter has run exactly once when the process
\* has exited and not at all before, wherever the watch loop is; a filter
\* that was never created is never destroyed.
C7_DestroyOnceAtExit ==
  \A i \in Calls :
    /\ destroys[i] = (IF exited /\ err_msg[i] = "None" THEN 1 ELSE 0)
    /\ filter[i] = (IF err_msg[i] # "None" THEN "none"
                    ELSE IF exited THEN "destroyed" ELSE "created")

\* C7 witness: the process exited while the loop was processing a result.
C7_Witness ==
  /\ exited
  /\ destroys[1] = 1
  /\ BodyDone(1)

\* C8: an object update of a kind other than 'modify' causes no
\* setStatusDetached call, whatever its changes are.
C8_OnlyModifyDetaches ==
  \A t \in Calls :
    (BodyDone(t) /\ objectSet[t].kind # "modify") => outcome[t] = NoOutcome

\* C8 witness: an 'enter' update of a VM with a volume disk, carrying a
\* power-off change.
C8_Witness ==
  /\ BodyDone(1)
  /\ objectSet[1].kind = "enter"
  /\ Qualifying(objectSet[1]) # {}
  /\ objectSet[1].obj = [tag |-> "vm", device |-> <<"disk1">>]

\* C9: every setStatusDetached call is made on account of a change whose
\* name is runtime.powerState and whose value is poweredOff.
C9_OnlyPowerOffDetaches ==
  \A t \in Calls :
    BodyDone(t) =>
      \A i \in 1..Len(outcome[t].calls) :
        outcome[t].calls[i].chg \in Qualifying(objectSet[t])

\* C9 witness: a power-on change followed by a power-off change, and a call
\* made for the second.
C9_Witness ==
  /\ BodyDone(1)
  /\ Len(objectSet[1].changeSet) = 2
  /\ Qualifying(objectSet[1]) = {2}
  /\ objectSet[1].changeSet[1].name = VM_POWERSTATE
  /\ outcome[1].calls # << >>

\* A power-off reported without an object reference.
PowerOffWithoutMoref(t) ==
  /\ BodyDone(t)
  /\ objectSet[t].kind = "modify"
  /\ Qualifying(objectSet[t]) # {}
  /\ objectSet[t].obj.tag = "absent"

\* C10, as claimed: the loop logs the condition and skips to the next object
\* update, so the condition is logged once per object update, with no call
\* and no exception.
C10_SkipsToNextObject ==
  \A t \in Calls :
    PowerOffWithoutMoref(t) =>
      /\ outcome[t].calls = << >>
      /\ ~outcome[t].raised
      /\ outcome[t].errs = 1

\* C10, amended: the loop logs the condition and skips to the next change of
\* the same object update, so the condition is logged once per power-off
\* change of it; no call is made, nothing is raised, and the loop goes on to
\* the next object update of the result.
C10_SkipsToNextChange ==
  [][\A t \in Calls :
       PowerOffWithoutMoref(t) =>
         /\ outcome[t].calls = << >>
         /\ ~outcome[t].raised
         /\ outcome[t].errs = Cardinality(Qualifying(objectSet[t]))
         /\ pc'[t] \in {"body_done", "iter"}
         /\ ~caught'[t]]_vars

\* C10 witness: two power-off changes without an object reference, both
\* logged.
C10_Witness ==
  /\ PowerOffWithoutMoref(1)
  /\ Cardinality(Qualifying(objectSet[1])) = 2
  /\ outcome[1].errs = 2

\* A power-off event with nothing to process: no change at all, or a VM
\* whose device list is empty or unset.
NothingToDetach(t) ==
  /\ BodyDone(t)
  /\ objectSet[t].kind = "modify"
  /\ \/ objectSet[t].changeSet = << >>
     \/ /\ Qualifying(objectSet[t]) # {}
        /\ \/ objectSet[t].obj.tag = "nodevlist"
           \/ objectSet[t].obj = [tag |-> "vm", device |-> << >>]

\* C11, as claimed: a power-off event with an empty change list, or of a VM
\* with an empty or unset device list, causes no setStatusDetached call, no
\* logged error and no exception, so the loops go on with the next entry.
C11_NothingToDetachIsNoError ==
  \A t \in Calls : NothingToDetach(t) => outcome[t] = NoOutcome

\* C13: the device at which set_device_detached raises, for a device list
\* that makes it raise.
DeviceFails(devs, k, kv) ==
  \/ FindRaises(devs[k])
  \/ /\ find_dvs_volume(devs[k]) # NoPath
     /\ StatusRaises(find_dvs_volume(devs[k]), kv)

FirstFailing(devs, kv) ==
  CHOOSE k \in 1..Len(devs) :
    DeviceFails(devs, k, kv) /\ \A j \in 1..(k - 1) : ~DeviceFails(devs, j, kv)

FirstQualifying(o) ==
  CHOOSE c \in Qualifying(o) : \A d \in Qualifying(o) : c <= d

\* The calls of a loop body that raised are those made up to the exception:
\* one for each volume device before the failing one, for the first power-off
\* change, and the failing call itself when setStatusDetached raised.
CallsStopAtFailure(t) ==
  LET o == objectSet[t]
      devs == o.obj.device
      calls == outcome[t].calls
  IN  /\ o.kind = "modify" /\ Qualifying(o) # {} /\ o.obj.tag # "absent"
      /\ IF o.obj.tag # "vm" THEN calls = << >>
         ELSE /\ \E k \in 1..Len(devs) : DeviceFails(devs, k, kvDown[t])
              /\ LET kf == FirstFailing(devs, kvDown[t])
                 IN  /\ \A i \in 1..Len(calls) :
                          /\ calls[i].chg = FirstQualifying(o)
                          /\ calls[i].dev <= kf
                          /\ calls[i].dev = kf => ~FindRaises(devs[kf])
                     /\ \A k \in 1..(kf - 1) :
                          Cardinality(CallsFor(t, k)) =
                            (IF find_dvs_volume(devs[k]) # NoPath THEN 1 ELSE 0)
                     /\ Cardinality(CallsFor(t, kf)) =
                          (IF FindRaises(devs[kf]) THEN 0 ELSE 1)

\* C13: the processing of a result ends at the first exception: the calls
\* made before it stand, no entry of the result is handled after it, and the
\* thread goes on to poll with the version of that result.
C13_AbandonedAtFirstException ==
  [][\A t \in Calls :
       /\ (BodyDone(t) /\ outcome[t].raised) =>
            /\ CallsStopAtFailure(t)
            /\ pc'[t] \in {"body_done", "advance"}
            /\ outcome'[t] = outcome[t]
       /\ (pc[t] = "advance" /\ caught[t]) =>
            /\ outcome'[t] = outcome[t]
            /\ nobjects'[t] = nobjects[t]
            /\ pc'[t] \in {"advance", "poll"}
            /\ pc'[t] = "poll" => version'[t] = resultVersion[t]]_vars

\* C13 witness: the first object update of a result made one call and then
\* raised at its second device; the thread is back at the poll.
C13_Witness ==
  /\ pc[1] = "poll"
  /\ caught[1]
  /\ nobjects[1] = 1
  /\ objectSet[1].obj.device = <<"disk1", "baddisk">>
  /\ Len(objectSet[1].changeSet) = 2
  /\ Cardinality(Qualifying(objectSet[1])) = 2
  /\ Len(outcome[1].calls) = 1
  /\ version[1] = resultVersion[1]

\* C12: the version of a watch loop changes only in the step of that loop
\* that assigns result.version after the processing of a result; the
\* processing itself, the caller of start_vm_changelistener, the exit-time
\* cleanup and every other watch loop leave it alone.
C12_OnlyOwnLoopWritesVersion ==
  [][\A t \in Calls :
       version'[t] # version[t] =>
         /\ pc[t] = "advance" /\ pc'[t] = "poll"
         /\ version'[t] = resultVersion[t]
         /\ \A u \in Calls \ {t} : version'[u] = version[u]]_vars

\* C12 witness: two watch loops, each past its first result, with different
\* versions, one of them processing while the process exits.
C12_Witness ==
  /\ started[1] = 1 /\ started[2] = 1
  /\ version[1] = "v1" /\ version[2] = "v2"
  /\ BodyDone(1) /\ pc[2] = "poll"
  /\ exited

\* ---- C14

RemoveVmRan == targ.fn = "remove_vm"

HasEvent(e) == \E i \in 1..Len(tlog) : tlog[i] = e

PowerOffIssued == HasEvent(Issued("PowerOffVM_Task"))

DestroyIssued == HasEvent(Issued("Destroy_Task"))

\* Every task of the log but the last has been waited for right after it was
\* issued, and nothing is waited for that was not issued just before.
IssueThenWait ==
  \A i \in 1..Len(tlog) :
    IF i % 2 = 1
    THEN tlog[i].ev = "issued"
    ELSE tlog[i].ev = "waited" /\ tlog[i].task = tlog[i-1].task

\* C14: remove_vm does nothing when vm is absent; otherwise it issues the
\* power-off task exactly when the VM is powered on, as its first step, and
\* waits for it before anything else; it issues the destroy task only when
\* destroy_vm is true, after a power-off that was issued has been waited for
\* and has ended, and it has issued it whenever it returns with destroy_vm
\* true; with destroy_vm false the VM still exists.
C14_RemoveVm ==
  RemoveVmRan =>
    /\ targ.vm = "None" => tlog = << >> /\ tpc = "returned"
    /\ PowerOffIssued <=> (targ.vm = "vm" /\ targ.powerState = "poweredOn")
    /\ PowerOffIssued => tlog[1] = Issued("PowerOffVM_Task")
    /\ IssueThenWait
    /\ DestroyIssued => targ.vm = "vm" /\ targ.destroy_vm
    /\ (DestroyIssued /\ PowerOffIssued) =>
          /\ Len(tlog) >= 3
          /\ tlog[2].ev = "waited" /\ tlog[2].task = "PowerOffVM_Task"
          /\ tlog[2].state # "running"
          /\ tlog[3] = Issued("Destroy_Task")
    /\ (tpc = "returned" /\ targ.vm = "vm" /\ targ.destroy_vm) => DestroyIssued
    /\ (targ.vm = "vm" /\ ~targ.destroy_vm) => vmState.exists

\* remove_vm powered a running VM off, then destroyed it, and returned.
C14_Witness ==
  /\ RemoveVmRan /\ tpc = "returned" /\ Len(tlog) = 4
  /\ PowerOffIssued /\ DestroyIssued /\ ~vmState.exists

\* ---- C15

CreateVmRan == targ.fn = "create_vm"

PowerOnIssued == HasEvent(Issued("PowerOnVM_Task"))

\* C15: create_vm returns (None, vm) when the create task produced a VM and
\* (VM_NOT_FOUND error info, None) when it did not, so exactly one element of
\* the pair is set; the power-on task is issued exactly when the created VM is
\* powered off, after the create task has been waited for, and is waited for
\* before create_vm returns.
C15_CreateVm ==
  CreateVmRan =>
    /\ IssueThenWait
    /\ tlog[1] = Issued("CreateVM_Task")
    /\ tpc = "returned" =>
         /\ (tret.error_info = "None") # (tret.vm = "None")
         /\ tret.vm = "vm" <=> tlog[2].state = "success"
         /\ tret.vm = "None" => tret.error_info = "VM_NOT_FOUND"
         /\ PowerOnIssued <=> (tret.vm = "vm" /\ targ.powerState = "poweredOff")
         /\ PowerOnIssued => Len(tlog) = 4 /\ tlog[4].task = "PowerOnVM_Task"
    /\ PowerOnIssued =>
         /\ targ.vm = "vm" /\ targ.powerState = "poweredOff"
         /\ tlog[2] = [ev |-> "waited", task |-> "CreateVM_Task",
                       state |-> "success"]
         /\ tlog[3] = Issued("PowerOnVM_Task")
    /\ (tpc = "cv_wait_create" \/ Len(tlog) <= 2) => ~PowerOnIssued

\* create_vm created a powered-off VM, powered it on and returned it.
C15_Witness ==
  /\ CreateVmRan /\ tpc = "returned" /\ PowerOnIssued
  /\ tret = [error_info |-> "None", vm |-> "vm"]
  /\ vmState = [exists |-> TRUE, powerState |-> "poweredOn"]

\* create_vm returned the VM_NOT_FOUND error and no VM.
C15_WitnessNotFound ==
  /\ CreateVmRan /\ tpc = "returned"
  /\ tret = [error_info |-> "VM_NOT_FOUND", vm |-> "None"]

\* ---- C17

CheckRan == targ.fn = "checkIfVolumeExist"

\* The name is the 'Name' field of at least one entry of result.
Listed(name, result) ==
  \E j \in 1..Len(result.items) : result.items[j].Name = name

AllListed(volume_names, result) ==
  \A i \in 1..Len(volume_names.items) : Listed(volume_names.items[i], result)

\* C17: checkIfVolumeExist returns True exactly when both arguments are
\* non-empty and every name of volume_names is the 'Name' of some entry of
\* result; it returns False at the first missing name, looking at no name after
\* it, and when either argument is empty or absent.
C17_TrueIffAllListed ==
  CheckRan =>
    LET volume_names == targ.volume_names
        result == targ.result
    IN  /\ tret.value <=> /\ Truthy(volume_names) /\ Truthy(result)
                          /\ AllListed(volume_names, result)
        /\ (~Truthy(volume_names) \/ ~Truthy(result)) =>
              ~tret.value /\ tret.seen = << >>
        /\ (~tret.value /\ tret.seen # << >>) =>
              /\ ~Listed(tret.seen[Len(tret.seen)], result)
              /\ \A i \in 1..(Len(tret.seen) - 1) : Listed(tret.seen[i], result)
              /\ tret.seen = SubSeq(volume_names.items, 1, Len(tret.seen))

\* Two names were looked up in a result of two entries, the second entry
\* matching the first name; the second name is missing.
C17_Witness ==
  /\ CheckRan /\ ~tret.value
  /\ Len(targ.volume_names.items) = 2 /\ Len(targ.result.items) = 2
  /\ targ.result.items[2].Name = targ.volume_names.items[1]
  /\ targ.result.items[1].Name # targ.volume_names.items[1]
  /\ Len(tret.seen) = 2

\* ---- C16

DefaultsRan == targ.fn = "create_default_tenant_and_privileges"

CallMade(name) ==
  \E i \in 1..Len(tlog) : tlog[i].ev = "call" /\ tlog[i].task = name

\* C16: create_default_tenant_and_privileges calls create_tenant only when no
\* default tenant exists and _tenant_access_add only when no default
\* privileges exist; a run that follows a successful run creates nothing, and a
\* tenant or privilege record that exists is still there, uncreated, after
\* the run.
C16_CreatesOnlyWhatIsMissing ==
  DefaultsRan =>
    /\ CallMade("create_tenant") => ~targ.db.tenant
    /\ CallMade("_tenant_access_add") => ~targ.db.privileges
    /\ targ.db.tenant => authdb.tenant
    /\ targ.db.privileges => authdb.privileges
    /\ targ.db.lastRunOk =>
         /\ ~CallMade("create_tenant") /\ ~CallMade("_tenant_access_add")
         /\ ~CallMade("get_auth_mgr_object")
         /\ authdb.tenant = targ.db.tenant
         /\ authdb.privileges = targ.db.privileges
    /\ tret = "ok" => authdb.tenant /\ authdb.privileges

\* A run that follows a successful run: it made the two lookups and nothing
\* else, and succeeded.
C16_Witness ==
  /\ DefaultsRan /\ targ.db.lastRunOk /\ tret = "ok"
  /\ Len(tlog) = 2

\* ---- C18

\* create_tenant was called and returned an error message.
CreateTenantFailed ==
  \E i \in 1..Len(tlog) : tlog[i] = Called("create_tenant", TRUE)

\* C18: every failure of a collaborator call ends the helper with a failed
\* assertion right after a warning was logged; when create_tenant returns an
\* error message the warning is logged, the assertion fails and the privilege
\* step is not reached; no other exception escapes.
C18_FailuresAreAssertions ==
  DefaultsRan =>
    /\ tret \in {"ok", "AssertionError"}
    /\ tret = "AssertionError" => tlog[Len(tlog)].ev = "warning"
    /\ CreateTenantFailed =>
         /\ tret = "AssertionError"
         /\ tlog[Len(tlog)] = Warned("create_tenant")
         /\ ~CallMade("get_default_privileges")

====
